---- MODULE Spec2Model ----
(***************************************************************************)
(* The HJB watcher (scripts/watcher/hjb_watcher.py): a task queue kept in  *)
(* four directories of a shared filesystem.  Watcher processes claim a     *)
(* manifest by renaming it from pending/ into processing/, run its         *)
(* handler and archive the outcome under completed/<task_id>/ or           *)
(* failed/<task_id>/.  Every filesystem call of main() and run_once() that *)
(* another process can observe is one action.                              *)
(*                                                                         *)
(* File names are sequences of name parts, so that two paths are the same  *)
(* file exactly when the code builds the same string for both.  A          *)
(* directory is a function from the paths in it to the files' contents.    *)
(***************************************************************************)
EXTENDS Integers, Sequences, FiniteSets, TLC

\* ------------------------------------------------------------- bounds
NumProcs == 2
MaxSubmit == 2
MaxTime == 1

Procs == 1..NumProcs

\* ---------------------------------------------------- program constants
TASK_SCHEMA_V1 == "hjb.task.v1"
TASK_RESULT_SCHEMA_V1 == "hjb.task_result.v1"
TASK_ERROR_SCHEMA_V1 == "hjb.task_error.v1"

\* Watcher identities (--watcher-id / HJB_WATCHER_ID).
WatcherIds == {"orionmx_1", "helper_1", "helper_2"}
\* continuous_mode = args.continuous or args.opportunistic; else single cycle.
Modes == {"single", "continuous", "opportunistic"}

\* ------------------------------------------------------- the producers
\* The manifests a producer may write into pending/, by file name, listed in
\* the order sorted() gives them.
FileOrder ==
  << "a_first.txt", "a_noop.json", "b_unknown.json", "c_array.json",
     "d_notype.json", "e_schema.json", "f_noid.json", "g_ia_fail.json",
     "g_ia_ok.json", "orionmx_h.json" >>

FileNames == {FileOrder[i] : i \in DOMAIN FileOrder}

\* json.loads(text) of each manifest.  task_id / task_type / schema "" and
\* attempt 0 stand for an absent field; run is what the handler's external
\* work (subprocess, inventory roots) comes to.  "truncated" is the text of a
\* file that its producer has opened and not yet written: no JSON value.
ManifestOf(name) ==
  CASE name = "a_noop.json" ->
         [json |-> "object", schema |-> TASK_SCHEMA_V1, task_type |-> "noop",
          task_id |-> "T1", attempt |-> 1, run |-> "ok"]
    [] name = "b_unknown.json" ->
         [json |-> "object", schema |-> TASK_SCHEMA_V1,
          task_type |-> "does_not_exist", task_id |-> "T2", attempt |-> 0,
          run |-> "ok"]
    [] name = "c_array.json" ->
         [json |-> "array", schema |-> "", task_type |-> "", task_id |-> "",
          attempt |-> 0, run |-> "ok"]
    [] name = "d_notype.json" ->
         [json |-> "object", schema |-> TASK_SCHEMA_V1, task_type |-> "",
          task_id |-> "T3", attempt |-> 1, run |-> "ok"]
    [] name = "e_schema.json" ->
         [json |-> "object", schema |-> "hjb.task.v2", task_type |-> "noop",
          task_id |-> "T4", attempt |-> 1, run |-> "ok"]
    [] name = "f_noid.json" ->
         [json |-> "object", schema |-> "", task_type |-> "noop",
          task_id |-> "", attempt |-> 0, run |-> "ok"]
    [] name = "a_first.txt" ->
         [json |-> "object", schema |-> TASK_SCHEMA_V1, task_type |-> "noop",
          task_id |-> "T6", attempt |-> 1, run |-> "ok"]
    [] name = "g_ia_fail.json" ->
         [json |-> "object", schema |-> TASK_SCHEMA_V1,
          task_type |-> "stage1.ia_download", task_id |-> "T1", attempt |-> 2,
          run |-> "exit_nonzero"]
    [] name = "g_ia_ok.json" ->
         [json |-> "object", schema |-> TASK_SCHEMA_V1,
          task_type |-> "stage1.ia_download", task_id |-> "T7", attempt |-> 1,
          run |-> "ok"]
    [] name = "truncated" ->
         [json |-> "invalid", schema |-> "", task_type |-> "", task_id |-> "",
          attempt |-> 0, run |-> "ok"]
    [] OTHER ->
         [json |-> "object", schema |-> TASK_SCHEMA_V1, task_type |-> "noop",
          task_id |-> "T5", attempt |-> 1, run |-> "ok"]

\* ----------------------------------------------------- names and paths
\* datetime.now(timezone.utc).strftime("%Y%m%dT%H%M%SZ")
Stamp(t) == ToString(t)

\* "orionmx_" in <one part of a file name>
HasOrionPrefix(part) == part \in {"orionmx_1", "orionmx_h.json"}

\* Path.suffix of each file name
Suffix(name) == IF name = "a_first.txt" THEN ".txt" ELSE ".json"

\* pending.glob("*.json")
IsJsonName(name) == name \in FileNames /\ Suffix(name) = ".json"

\* processing / f"{src.name}.{watcher_id}.processing"
MarkerName(name, wid) == << name, wid, "processing" >>
\* outdir / f"{src.name}.{watcher_id}.done"
DoneName(name, wid) == << name, wid, "done" >>
\* errdir / f"{src.name}.{watcher_id}.failed"
FailedName(name, wid) == << name, wid, "failed" >>
\* f"{task_id}.{watcher_id}.manifest.json"
ManifestCopyName(tid, wid) == tid \o << wid, "manifest.json" >>
\* f"{task_id}.{watcher_id}.{ts2}.result.json"
ResultName(tid, wid, t) == tid \o << wid, Stamp(t), "result.json" >>
\* f"{fallback_id}.{watcher_id}.{ts_fail}.error.json"
ErrorName(tid, wid, t) == tid \o << wid, Stamp(t), "error.json" >>
\* task_id = f"{ts}_{dst.stem}": dst.stem is "<src.name>.<watcher_id>"
DerivedId(t, name, wid) == << Stamp(t), name, wid >>
GivenId(s) == << s >>

\* --------------------------------------------------------- directories
EmptyDir == [q \in {} |-> [text |-> ""]]
WriteFile(dir, path, content) ==
  [q \in DOMAIN dir \cup {path} |-> IF q = path THEN content ELSE dir[q]]
RemoveFile(dir, path) == [q \in DOMAIN dir \ {path} |-> dir[q]]
\* The task directories that exist under completed/ or failed/.
TaskDirs(dir) == {q[1] : q \in DOMAIN dir}

VARIABLES
  pending,     \* flags/pending: file name -> content
  processing,  \* flags/processing: marker name -> content
  completed,   \* flags/completed: <<task dir, file name>> -> content
  failed,      \* flags/failed: <<task dir, file name>> -> content
  locks,       \* state_root/locks: watcher id -> owner.json of its lock dir
  heartbeats,  \* state_root/watcher_heartbeat_<id>.json: watcher id -> content
  now,         \* the wall clock, in seconds
  nsub,        \* manifests written into pending so far
  pc,          \* each process's place in main() / run_once()
  cfg,         \* each process's command line
  job,         \* each process's locals of run_once()
  exit,        \* how each process ended
  claimlog,    \* history: every atomic_rename of a claim and what it returned
  logs_root    \* whether the logs_root directory exists

vars == << pending, processing, completed, failed, locks, heartbeats, now,
           nsub, pc, cfg, job, exit, claimlog, logs_root >>

fsvars == << pending, processing, completed, failed >>

NoCfg == [watcher_id |-> "", mode |-> "", one_task |-> FALSE]
NoError == [type |-> "", msg |-> ""]
NoJob ==
  [src |-> "", sn |-> 0, started |-> 0, task_id |-> << >>, task_type |-> "",
   attempt |-> 0, outputs |-> << >>, ex |-> NoError, ts_fail |-> 0]
\* owner.json absent from an existing lock directory
NoOwner == [pid |-> 0, utc_last_seen |-> 0]

Init ==
  /\ pending = EmptyDir
  /\ processing = EmptyDir
  /\ completed = EmptyDir
  /\ failed = EmptyDir
  /\ locks = [w \in {} |-> NoOwner]
  /\ heartbeats = [w \in {} |-> NoOwner]
  /\ now = 0
  /\ nsub = 0
  /\ pc = [p \in Procs |-> "off"]
  /\ cfg = [p \in Procs |-> NoCfg]
  /\ job = [p \in Procs |-> NoJob]
  /\ exit = [p \in Procs |-> ""]
  /\ claimlog = {}
  /\ logs_root = TRUE

\* The clock advances.
Tick ==
  /\ now < MaxTime
  /\ now' = now + 1
  /\ UNCHANGED << pending, processing, completed, failed, locks, heartbeats,
                  nsub, pc, cfg, job, exit, claimlog, logs_root >>

\* The logs_root directory goes away (the share it is on is unmounted).
RemoveLogsRoot ==
  /\ logs_root
  /\ logs_root' = FALSE
  /\ UNCHANGED << pending, processing, completed, failed, locks, heartbeats,
                  now, nsub, pc, cfg, job, exit, claimlog >>

\* A running watcher process is killed: it stops where it is, and neither an
\* except block nor the finally of main() runs.
Crash(p) ==
  /\ pc[p] \notin {"off", "exited"}
  /\ pc' = [pc EXCEPT ![p] = "exited"]
  /\ exit' = [exit EXCEPT ![p] = "killed"]
  /\ job' = [job EXCEPT ![p] = NoJob]
  /\ UNCHANGED << pending, processing, completed, failed, locks, heartbeats,
                  now, nsub, cfg, claimlog, logs_root >>

\* output_path.write_text(...) of generate_tasks, first half: open(path, "w")
\* creates the file in pending, empty, under its final name.
generate_tasks_open(name) ==
  /\ nsub < MaxSubmit
  /\ name \notin DOMAIN pending
  /\ nsub' = nsub + 1
  /\ pending' = WriteFile(pending, name, [file |-> "truncated", sn |-> nsub + 1])
  /\ UNCHANGED << processing, completed, failed, locks, heartbeats, now, pc,
                  cfg, job, exit, claimlog, logs_root >>

\* output_path.write_text(...), second half: the text is written and the file
\* closed.  The open file is written where it now is: in pending, or, when a
\* watcher has renamed it meanwhile, under its marker name in processing.
generate_tasks_write ==
  /\ \/ /\ \E n \in DOMAIN pending :
             /\ pending[n].file = "truncated"
             /\ pending' = [pending EXCEPT ![n].file = n]
        /\ UNCHANGED processing
     \/ /\ \E marker \in DOMAIN processing :
             /\ processing[marker].file = "truncated"
             /\ processing' = [processing EXCEPT ![marker].file = marker[1]]
        /\ UNCHANGED pending
  /\ UNCHANGED << nsub, completed, failed, locks, heartbeats, now, pc, cfg,
                  job, exit, claimlog, logs_root >>

\* Someone other than the watcher deletes the heartbeat file of identity w.
TamperHeartbeat(w) ==
  /\ w \in DOMAIN heartbeats
  /\ heartbeats' = RemoveFile(heartbeats, w)
  /\ UNCHANGED << pending, processing, completed, failed, locks, now, nsub,
                  pc, cfg, job, exit, claimlog, logs_root >>

\* Someone other than the watcher deletes owner.json of the lock directory
\* of identity w; the directory stays.
TamperOwner(w) ==
  /\ w \in DOMAIN locks
  /\ locks[w] # NoOwner
  /\ locks' = WriteFile(locks, w, NoOwner)
  /\ UNCHANGED << pending, processing, completed, failed, heartbeats, now,
                  nsub, pc, cfg, job, exit, claimlog, logs_root >>

\* An operator removes the lock directory of identity w by hand, owner.json
\* with it; a watcher that runs under w is not told.
RemoveLockDir(w) ==
  /\ w \in DOMAIN locks
  /\ locks' = RemoveFile(locks, w)
  /\ UNCHANGED << pending, processing, completed, failed, heartbeats, now,
                  nsub, pc, cfg, job, exit, claimlog, logs_root >>

\* A producer writes manifest `name` into pending (generate_tasks:
\* output_path.write_text(json.dumps(task))).  sn numbers the files written,
\* so that a re-submitted name is a new file.
Submit(name) ==
  /\ nsub < MaxSubmit
  /\ name \notin DOMAIN pending
  /\ nsub' = nsub + 1
  /\ pending' = WriteFile(pending, name, [file |-> name, sn |-> nsub + 1])
  /\ UNCHANGED << processing, completed, failed, locks, heartbeats, now, pc,
                  cfg, job, exit, claimlog, logs_root >>

\* ------------------------------------------------------------- main()
\* A loop that does not look at --one-task-and-exit.
AfterCycle_ignores_one_task(p, task_processed) ==
  IF cfg[p].mode = "single" THEN "exited" ELSE "sleep"

\* What main() does with run_once()'s return value (lines 768-806): a single
\* cycle returns 0 without reaching the try/finally; the loop leaves through
\* the finally when one_task_mode and task_processed, else sleeps and loops.
AfterCycle(p, task_processed) ==
  IF cfg[p].mode = "single" THEN "exited"
  ELSE IF cfg[p].one_task /\ task_processed THEN "release"
  ELSE "sleep"

\* A main() that calls run_once() again after a single cycle.
Return_runs_again(p, task_processed) ==
  /\ pc' = [pc EXCEPT ![p] = IF cfg[p].mode = "single" THEN "cycle"
                                ELSE AfterCycle(p, task_processed)]
  /\ exit' = exit
  /\ job' = [job EXCEPT ![p] = NoJob]

\* run_once() returns task_processed to main().
Return(p, task_processed) ==
  /\ pc' = [pc EXCEPT ![p] = AfterCycle(p, task_processed)]
  /\ exit' = [exit EXCEPT ![p] = IF cfg[p].mode = "single" THEN "ok" ELSE @]
  /\ job' = [job EXCEPT ![p] = NoJob]

\* An exception leaves run_once(): the single-cycle call is outside the
\* try/finally (line 770), the loop unwinds through the finally (line 807).
Raise(p) ==
  /\ pc' = [pc EXCEPT ![p] = IF cfg[p].mode = "single" THEN "exited" ELSE "release"]
  /\ exit' = [exit EXCEPT ![p] = "exception"]
  /\ job' = [job EXCEPT ![p] = NoJob]

\* An acquire whose mkdir accepts a directory that is already there.
acquire_single_instance_lock_exist_ok(p, w, m, o, owner_ok) ==
  /\ pc[p] = "off"
  /\ cfg' = [cfg EXCEPT ![p] = [watcher_id |-> w, mode |-> m, one_task |-> o]]
  /\ locks' = WriteFile(locks, w,
                IF owner_ok THEN [pid |-> p, utc_last_seen |-> now] ELSE NoOwner)
  /\ pc' = [pc EXCEPT ![p] = IF m = "single" THEN "cycle" ELSE "loop"]
  /\ UNCHANGED << exit, pending, processing, completed, failed, heartbeats, now,
                  nsub, job, claimlog, logs_root >>

\* An acquire that takes over a lock whose owner record is older than the
\* clock.
acquire_single_instance_lock_expires_stale(p, w, m, o, owner_ok) ==
  /\ pc[p] = "off"
  /\ cfg' = [cfg EXCEPT ![p] = [watcher_id |-> w, mode |-> m, one_task |-> o]]
  /\ IF w \in DOMAIN locks /\ locks[w].utc_last_seen >= now
       THEN /\ pc' = [pc EXCEPT ![p] = "exited"]
            /\ exit' = [exit EXCEPT ![p] = "lock_held"]
            /\ UNCHANGED locks
       ELSE /\ locks' = WriteFile(locks, w,
                          IF owner_ok THEN [pid |-> p, utc_last_seen |-> now]
                                      ELSE NoOwner)
            /\ pc' = [pc EXCEPT ![p] = IF m = "single" THEN "cycle" ELSE "loop"]
            /\ UNCHANGED exit
  /\ UNCHANGED << pending, processing, completed, failed, heartbeats, now,
                  nsub, job, claimlog, logs_root >>

\* An acquire that gives the lock directory back and exits when the owner
\* record cannot be written.
acquire_single_instance_lock_owner_required(p, w, m, o, owner_ok) ==
  /\ pc[p] = "off"
  /\ cfg' = [cfg EXCEPT ![p] = [watcher_id |-> w, mode |-> m, one_task |-> o]]
  /\ IF w \in DOMAIN locks
       THEN /\ pc' = [pc EXCEPT ![p] = "exited"]
            /\ exit' = [exit EXCEPT ![p] = "lock_held"]
            /\ UNCHANGED locks
       ELSE IF owner_ok
         THEN /\ locks' = WriteFile(locks, w, [pid |-> p, utc_last_seen |-> now])
              /\ pc' = [pc EXCEPT ![p] = IF m = "single" THEN "cycle" ELSE "loop"]
              /\ UNCHANGED exit
         ELSE /\ pc' = [pc EXCEPT ![p] = "exited"]
              /\ exit' = [exit EXCEPT ![p] = "exception"]
              /\ UNCHANGED locks
  /\ UNCHANGED << pending, processing, completed, failed, heartbeats, now,
                  nsub, job, claimlog, logs_root >>

\* main() up to and including acquire_single_instance_lock(): lock_dir.mkdir()
\* either creates the directory or raises FileExistsError -> SystemExit.
\* owner_ok: whether the best-effort owner.json write went through.
acquire_single_instance_lock(p, w, m, o, owner_ok) ==
  /\ pc[p] = "off"
  /\ cfg' = [cfg EXCEPT ![p] = [watcher_id |-> w, mode |-> m, one_task |-> o]]
  /\ IF w \in DOMAIN locks
       THEN /\ pc' = [pc EXCEPT ![p] = "exited"]
            /\ exit' = [exit EXCEPT ![p] = "lock_held"]
            /\ UNCHANGED locks
       ELSE /\ locks' = WriteFile(locks, w,
                          IF owner_ok THEN [pid |-> p, utc_last_seen |-> now]
                                      ELSE NoOwner)
            /\ pc' = [pc EXCEPT ![p] = IF m = "single" THEN "cycle" ELSE "loop"]
            /\ UNCHANGED exit
  /\ UNCHANGED << pending, processing, completed, failed, heartbeats, now,
                  nsub, job, claimlog, logs_root >>

\* A refresh that makes the lock directory again when it is gone.
update_lock_owner_recreates(p) ==
  /\ pc[p] = "loop"
  /\ locks' = WriteFile(locks, cfg[p].watcher_id,
                        [pid |-> p, utc_last_seen |-> now])
  /\ pc' = [pc EXCEPT ![p] = "cycle"]
  /\ UNCHANGED << pending, processing, completed, failed, heartbeats, now,
                  nsub, cfg, job, exit, claimlog, logs_root >>

\* Top of the while loop: owner.json is rewritten; the write fails silently
\* when the lock directory is gone.
update_lock_owner(p) ==
  /\ pc[p] = "loop"
  /\ locks' = IF cfg[p].watcher_id \in DOMAIN locks
                THEN WriteFile(locks, cfg[p].watcher_id,
                               [pid |-> p, utc_last_seen |-> now])
                ELSE locks
  /\ pc' = [pc EXCEPT ![p] = "cycle"]
  /\ UNCHANGED << pending, processing, completed, failed, heartbeats, now,
                  nsub, cfg, job, exit, claimlog, logs_root >>

\* time.sleep(max(1, poll_seconds)) at the bottom of the loop: at least one
\* second of the clock has passed when the process wakes up.
main_sleep(p) ==
  /\ pc[p] = "sleep"
  /\ now < MaxTime
  /\ now' = now + 1
  /\ pc' = [pc EXCEPT ![p] = "loop"]
  /\ UNCHANGED << pending, processing, completed, failed, locks, heartbeats,
                  nsub, cfg, job, exit, claimlog, logs_root >>

\* The finally of main(): owner.json is unlinked, then the directory removed.
release_single_instance_lock(p) ==
  /\ pc[p] = "release"
  /\ locks' = RemoveFile(locks, cfg[p].watcher_id)
  /\ pc' = [pc EXCEPT ![p] = "exited"]
  /\ exit' = [exit EXCEPT ![p] = IF @ = "" THEN "ok" ELSE @]
  /\ UNCHANGED << pending, processing, completed, failed, heartbeats, now,
                  nsub, cfg, job, claimlog, logs_root >>

\* --------------------------------------------------------- run_once()
\* require_dir() returns when the directory is there and raises when not.
require_dir(exists) == exists

\* A heartbeat whose write failure escapes the cycle.
run_once_heartbeat_fatal(p, hb_ok) ==
  /\ pc[p] = "cycle"
  /\ IF require_dir(logs_root) /\ hb_ok
       THEN /\ heartbeats' = WriteFile(heartbeats, cfg[p].watcher_id,
                                       [pid |-> p, utc_last_seen |-> now])
            /\ pc' = [pc EXCEPT ![p] = IF cfg[p].mode = "opportunistic"
                                          THEN "gate" ELSE "list"]
            /\ UNCHANGED << job, exit >>
       ELSE /\ Raise(p)
            /\ UNCHANGED heartbeats
  /\ UNCHANGED << pending, processing, completed, failed, locks, now, nsub,
                  cfg, claimlog, logs_root >>

\* Lines 551-582: the required directories are checked, outside any try; the
\* heartbeat is written, and a write that fails (hb_ok = FALSE) is dropped.
run_once_heartbeat(p, hb_ok) ==
  /\ pc[p] = "cycle"
  /\ IF require_dir(logs_root)
       THEN /\ heartbeats' = IF hb_ok
                               THEN WriteFile(heartbeats, cfg[p].watcher_id,
                                              [pid |-> p, utc_last_seen |-> now])
                               ELSE heartbeats
            /\ pc' = [pc EXCEPT ![p] = IF cfg[p].mode = "opportunistic"
                                          THEN "gate" ELSE "list"]
            /\ UNCHANGED << job, exit >>
       ELSE /\ Raise(p)
            /\ UNCHANGED heartbeats
  /\ UNCHANGED << pending, processing, completed, failed, locks, now, nsub,
                  cfg, claimlog, logs_root >>

\* any file of processing/ whose name contains "orionmx_"
is_orionmx_busy(dir) ==
  \E marker \in DOMAIN dir : \E i \in DOMAIN marker : HasOrionPrefix(marker[i])

\* A gate that also wants a heartbeat file of the primary watcher.
run_once_gate_reads_heartbeat(p) ==
  /\ pc[p] = "gate"
  /\ IF is_orionmx_busy(processing) /\ "orionmx_1" \in DOMAIN heartbeats
       THEN /\ pc' = [pc EXCEPT ![p] = "list"]
            /\ UNCHANGED << job, exit >>
       ELSE Return(p, FALSE)
  /\ UNCHANGED << pending, processing, completed, failed, locks, heartbeats,
                  now, nsub, cfg, claimlog, logs_root >>

\* Lines 586-589.
run_once_gate(p) ==
  /\ pc[p] = "gate"
  /\ IF is_orionmx_busy(processing)
       THEN /\ pc' = [pc EXCEPT ![p] = "list"]
            /\ UNCHANGED << job, exit >>
       ELSE Return(p, FALSE)
  /\ UNCHANGED << pending, processing, completed, failed, locks, heartbeats,
                  now, nsub, cfg, claimlog, logs_root >>

Rank(name) == CHOOSE i \in DOMAIN FileOrder : FileOrder[i] = name

\* sorted([p for p in pending.glob("*.json") if p.is_file()])[:1]
json_candidates(dir) ==
  LET names == {n \in DOMAIN dir : IsJsonName(n)}
  IN  {n \in names : \A other \in names : Rank(n) <= Rank(other)}

\* Line 592: the listing; with no candidate run_once() returns False.
run_once_list(p) ==
  /\ pc[p] = "list"
  /\ IF json_candidates(pending) = {}
       THEN Return(p, FALSE)
       ELSE /\ \E src \in json_candidates(pending) :
                 job' = [job EXCEPT ![p].src = src, ![p].sn = pending[src].sn]
            /\ pc' = [pc EXCEPT ![p] = "claim"]
            /\ UNCHANGED exit
  /\ UNCHANGED << pending, processing, completed, failed, locks, heartbeats,
                  now, nsub, cfg, claimlog, logs_root >>

\* A rename that leaves the source where it was.
PathReplace_keeps_source(from, src, to, dst, io_ok) ==
  IF io_ok /\ src \in DOMAIN from
    THEN [ok |-> TRUE, from |-> from, to |-> WriteFile(to, dst, from[src])]
    ELSE [ok |-> FALSE, from |-> from, to |-> to]

\* A rename that, on an I/O error, has already created the destination.
PathReplace_half_done(from, src, to, dst, io_ok) ==
  IF src \in DOMAIN from
    THEN IF io_ok
           THEN [ok |-> TRUE, from |-> RemoveFile(from, src),
                 to |-> WriteFile(to, dst, from[src])]
           ELSE [ok |-> FALSE, from |-> from, to |-> WriteFile(to, dst, from[src])]
    ELSE [ok |-> FALSE, from |-> from, to |-> to]

\* Path.replace(): when the source is there and the call meets no I/O error
\* the file moves to the destination, replacing what is there; else nothing
\* changes and the call raises.
PathReplace(from, src, to, dst, io_ok) ==
  IF io_ok /\ src \in DOMAIN from
    THEN [ok |-> TRUE, from |-> RemoveFile(from, src),
          to |-> WriteFile(to, dst, from[src])]
    ELSE [ok |-> FALSE, from |-> from, to |-> to]

\* A claim that copies the manifest instead of moving it.
atomic_rename_copies(from, src, to, dst, io_ok) ==
  IF io_ok /\ src \in DOMAIN from
    THEN [ok |-> TRUE, from |-> from, to |-> WriteFile(to, dst, from[src])]
    ELSE [ok |-> FALSE, from |-> from, to |-> to]

\* True when the rename went through, False on any OSError.
atomic_rename(from, src, to, dst, io_ok) == PathReplace(from, src, to, dst, io_ok)

\* A claim whose return value is not looked at: the cycle goes on to read the
\* marker whether or not the rename went through.
run_once_claim_unchecked(p, io_ok) ==
  LET src == job[p].src
      dst == MarkerName(src, cfg[p].watcher_id)
      mv == atomic_rename(pending, src, processing, dst, io_ok)
  IN
  /\ pc[p] = "claim"
  /\ pending' = mv.from
  /\ processing' = mv.to
  /\ claimlog' = claimlog \cup
       {[p |-> p, name |-> src, sn |-> IF mv.ok THEN mv.to[dst].sn ELSE job[p].sn,
         ok |-> mv.ok]}
  /\ job' = [job EXCEPT ![p].started = now,
                        ![p].sn = IF mv.ok THEN mv.to[dst].sn ELSE @]
  /\ pc' = [pc EXCEPT ![p] = "execute"]
  /\ UNCHANGED << exit, completed, failed, locks, heartbeats, now, nsub, cfg, logs_root >>

\* A claim that takes the manifest where it lies: the file stays in pending
\* and the cycle goes on to read and dispatch it.
run_once_claim_in_place(p, io_ok) ==
  LET src == job[p].src
  IN
  /\ pc[p] = "claim"
  /\ IF io_ok /\ src \in DOMAIN pending
       THEN /\ claimlog' = claimlog \cup
                 {[p |-> p, name |-> src, sn |-> pending[src].sn, ok |-> TRUE]}
            /\ job' = [job EXCEPT ![p].started = now, ![p].sn = pending[src].sn]
            /\ pc' = [pc EXCEPT ![p] = "execute"]
            /\ UNCHANGED exit
       ELSE /\ claimlog' = claimlog \cup
                 {[p |-> p, name |-> src, sn |-> job[p].sn, ok |-> FALSE]}
            /\ Return(p, FALSE)
  /\ UNCHANGED << pending, processing, completed, failed, locks, heartbeats,
                  now, nsub, cfg, logs_root >>

\* Lines 593-600: the claim.  sn becomes the file that was moved.
run_once_claim(p, io_ok) ==
  LET src == job[p].src
      dst == MarkerName(src, cfg[p].watcher_id)
      mv == atomic_rename(pending, src, processing, dst, io_ok)
  IN
  /\ pc[p] = "claim"
  /\ pending' = mv.from
  /\ processing' = mv.to
  /\ IF mv.ok
       THEN /\ claimlog' = claimlog \cup
                 {[p |-> p, name |-> src, sn |-> mv.to[dst].sn, ok |-> TRUE]}
            /\ job' = [job EXCEPT ![p].started = now, ![p].sn = mv.to[dst].sn]
            /\ pc' = [pc EXCEPT ![p] = "execute"]
            /\ UNCHANGED exit
       ELSE /\ claimlog' = claimlog \cup
                 {[p |-> p, name |-> src, sn |-> job[p].sn, ok |-> FALSE]}
            /\ Return(p, FALSE)
  /\ UNCHANGED << completed, failed, locks, heartbeats, now, nsub, cfg, logs_root >>

\* A validation that lets every schema value through.
ParseError_any_schema(m) ==
  IF m.json = "invalid" THEN [type |-> "JSONDecodeError", msg |-> "Expecting value"]
  ELSE IF m.json # "object"
    THEN [type |-> "ValueError", msg |-> "Task manifest JSON must be an object (dict)"]
  ELSE IF m.task_type = ""
    THEN [type |-> "KeyError", msg |-> "Missing required task_type (string)"]
  ELSE NoError

\* Lines 602-613: what json.loads and the checks before dispatch raise.
ParseError(m) ==
  IF m.json = "invalid" THEN [type |-> "JSONDecodeError", msg |-> "Expecting value"]
  ELSE IF m.json # "object"
    THEN [type |-> "ValueError", msg |-> "Task manifest JSON must be an object (dict)"]
  ELSE IF m.schema # "" /\ m.schema # TASK_SCHEMA_V1
    THEN [type |-> "ValueError", msg |-> "Unsupported task schema"]
  ELSE IF m.task_type = ""
    THEN [type |-> "KeyError", msg |-> "Missing required task_type (string)"]
  ELSE NoError

\* Lines 615-620: the manifest's task_id, or one derived from the marker name.
TaskIdOf(m, t, src, wid) ==
  IF m.task_id # "" THEN GivenId(m.task_id) ELSE DerivedId(t, src, wid)

\* attempt_i (line 623)
AttemptOf(m) == IF m.attempt >= 1 THEN m.attempt ELSE 1

\* A handler's outcome: the exception it raises (NoError: it returns), the
\* outputs it returns and the files it has written under completed/<task_id>/.
Outcome(ex, outputs, files) == [ex |-> ex, outputs |-> outputs, files |-> files]

task_stage1_inventory(m, tid, t) ==
  LET out_csv == << tid, << "inventory", "inventory" >> \o tid \o << Stamp(t), "csv" >> >>
  IN  IF m.run = "bad_payload"
        THEN Outcome([type |-> "KeyError",
                      msg |-> "payload.roots must be a list of UNC path strings"],
                     << >>, {})
      ELSE IF m.run = "missing_root"
        THEN Outcome([type |-> "FileNotFoundError",
                      msg |-> "Inventory root does not exist"], << >>, {out_csv})
      ELSE Outcome(NoError, << out_csv >>, {out_csv})

task_stage1_ia_download(m, tid, t) ==
  LET stem == << "stage1_ia_download", "ia_acquire" >> \o tid \o << Stamp(t) >>
      stdout_path == << tid, stem \o << "stdout.txt" >> >>
      stderr_path == << tid, stem \o << "stderr.txt" >> >>
  IN  IF m.run = "bad_payload"
        THEN Outcome([type |-> "KeyError",
                      msg |-> "payload.list_file must be a string path"],
                     << >>, {})
      ELSE IF m.run = "exit_nonzero"
        THEN Outcome([type |-> "RuntimeError", msg |-> "ia_acquire failed"],
                     << >>, {stdout_path, stderr_path})
      ELSE Outcome(NoError, << stdout_path, stderr_path >>,
                   {stdout_path, stderr_path})

\* A noop handler that reports no outputs.
execute_manifest_task_no_outputs(m, tid, t) ==
  IF m.task_type = "noop"
    THEN LET marker == << tid, << "noop", "noop" >> \o tid \o << Stamp(t), "txt" >> >>
         IN  Outcome(NoError, << >>, {marker})
  ELSE IF m.task_type = "stage1.inventory" THEN task_stage1_inventory(m, tid, t)
  ELSE IF m.task_type = "stage1.ia_download" THEN task_stage1_ia_download(m, tid, t)
  ELSE Outcome([type |-> "ValueError", msg |-> "Unknown task_type"], << >>, {})

\* The task types execute_manifest_task dispatches on.
HandlerRegistry == {"noop", "stage1.inventory", "stage1.ia_download"}

execute_manifest_task(m, tid, t) ==
  IF m.task_type = "noop"
    THEN LET marker == << tid, << "noop", "noop" >> \o tid \o << Stamp(t), "txt" >> >>
         IN  Outcome(NoError, << marker >>, {marker})
  ELSE IF m.task_type = "stage1.inventory" THEN task_stage1_inventory(m, tid, t)
  ELSE IF m.task_type = "stage1.ia_download" THEN task_stage1_ia_download(m, tid, t)
  ELSE Outcome([type |-> "ValueError", msg |-> "Unknown task_type"], << >>, {})

WriteFiles(dir, paths, content) ==
  [q \in DOMAIN dir \cup paths |-> IF q \in paths THEN content ELSE dir[q]]

\* The except block is entered with exception ex.
Except(p, ex) ==
  /\ job' = [job EXCEPT ![p].ex = ex]
  /\ pc' = [pc EXCEPT ![p] = "fail"]

\* Lines 601-634: the marker is read and parsed, the fields are checked and
\* the handler runs.
run_once_execute(p) ==
  LET wid == cfg[p].watcher_id
      src == job[p].src
      dst == MarkerName(src, wid)
  IN
  /\ pc[p] = "execute"
  /\ IF dst \notin DOMAIN processing
       THEN /\ Except(p, [type |-> "FileNotFoundError", msg |-> "dst"])
            /\ UNCHANGED completed
       ELSE LET m == ManifestOf(processing[dst].file)
                tid == TaskIdOf(m, now, src, wid)
                res == execute_manifest_task(m, tid, now)
            IN  IF ParseError(m) # NoError
                  THEN /\ Except(p, ParseError(m))
                       /\ UNCHANGED completed
                  ELSE /\ completed' = WriteFiles(completed, res.files,
                                                   [text |-> "handler output"])
                       /\ IF res.ex # NoError
                            THEN job' = [job EXCEPT ![p].ex = res.ex,
                                                    ![p].task_id = tid,
                                                    ![p].task_type = m.task_type,
                                                    ![p].attempt = AttemptOf(m)]
                            ELSE job' = [job EXCEPT ![p].outputs = res.outputs,
                                                    ![p].task_id = tid,
                                                    ![p].task_type = m.task_type,
                                                    ![p].attempt = AttemptOf(m)]
                       /\ pc' = [pc EXCEPT ![p] = IF res.ex # NoError THEN "fail"
                                                                        ELSE "archive"]
  /\ UNCHANGED << pending, processing, failed, locks, heartbeats, now, nsub,
                  cfg, exit, claimlog, logs_root >>

\* A cycle that, once the handler has returned, lists pending again instead
\* of archiving.
run_once_archive_pipelines(p) ==
  /\ pc[p] = "archive"
  /\ pc' = [pc EXCEPT ![p] = "list"]
  /\ UNCHANGED << pending, processing, completed, failed, locks, heartbeats,
                  now, nsub, cfg, job, exit, claimlog, logs_root >>

\* Lines 637-642: completed/<task_id>/ is made and the manifest copied into it.
run_once_archive(p) ==
  LET wid == cfg[p].watcher_id
      dst == MarkerName(job[p].src, wid)
      tid == job[p].task_id
  IN
  /\ pc[p] = "archive"
  /\ IF dst \in DOMAIN processing
       THEN /\ completed' = WriteFile(completed, << tid, ManifestCopyName(tid, wid) >>,
                                      processing[dst])
            /\ pc' = [pc EXCEPT ![p] = "result"]
            /\ UNCHANGED job
       ELSE /\ Except(p, [type |-> "FileNotFoundError", msg |-> "dst"])
            /\ UNCHANGED completed
  /\ UNCHANGED << pending, processing, failed, locks, heartbeats, now, nsub,
                  cfg, exit, claimlog, logs_root >>

\* The Result Record of lines 648-662.  sn is history: the file claimed.
ResultRecord(p) ==
  [schema |-> TASK_RESULT_SCHEMA_V1, task_id |-> job[p].task_id,
   task_type |-> job[p].task_type, attempt |-> job[p].attempt,
   watcher_id |-> cfg[p].watcher_id, pid |-> p,
   started_utc |-> job[p].started, ended_utc |-> now,
   duration_seconds |-> now - job[p].started, status |-> "ok",
   outputs |-> job[p].outputs, sn |-> job[p].sn]

\* A cycle that swallows a failed Result Record write and goes on to move
\* the marker.
run_once_result_swallows(p, json_ok) ==
  LET wid == cfg[p].watcher_id
      tid == job[p].task_id
  IN
  /\ pc[p] = "result"
  /\ completed' = IF json_ok
                    THEN WriteFile(completed, << tid, ResultName(tid, wid, now) >>,
                                   ResultRecord(p))
                    ELSE completed
  /\ pc' = [pc EXCEPT ![p] = "done"]
  /\ UNCHANGED << job, pending, processing, failed, locks, heartbeats, now,
                  nsub, cfg, exit, claimlog, logs_root >>

\* Lines 644-662: write_json(result_path, ...); after its retries it raises
\* PermissionError (json_ok = FALSE), which the except block catches.
run_once_result(p, json_ok) ==
  LET wid == cfg[p].watcher_id
      tid == job[p].task_id
  IN
  /\ pc[p] = "result"
  /\ IF json_ok
       THEN /\ completed' = WriteFile(completed, << tid, ResultName(tid, wid, now) >>,
                                      ResultRecord(p))
            /\ pc' = [pc EXCEPT ![p] = "done"]
            /\ UNCHANGED job
       ELSE /\ Except(p, [type |-> "PermissionError",
                          msg |-> "Failed to write JSON (retries exhausted)"])
            /\ UNCHANGED completed
  /\ UNCHANGED << pending, processing, failed, locks, heartbeats, now, nsub,
                  cfg, exit, claimlog, logs_root >>

\* A marker move without its try/except: a failed move sends the cycle to
\* the except block.
run_once_done_unguarded(p, io_ok) ==
  LET wid == cfg[p].watcher_id
      src == job[p].src
      dst == MarkerName(src, wid)
      mv == PathReplace(processing, dst, completed,
                        << job[p].task_id, DoneName(src, wid) >>, io_ok)
  IN
  /\ pc[p] = "done"
  /\ processing' = mv.from
  /\ completed' = mv.to
  /\ IF mv.ok
       THEN Return(p, TRUE)
       ELSE Except(p, [type |-> "OSError", msg |-> "replace"]) /\ UNCHANGED exit
  /\ UNCHANGED << pending, failed, locks, heartbeats, now, nsub, cfg, claimlog, logs_root >>

\* Lines 664-670 and 716: the marker moves to completed/<task_id>/ as .done
\* (a failed move is ignored), task_processed = True is returned.
run_once_done(p, io_ok) ==
  LET wid == cfg[p].watcher_id
      src == job[p].src
      dst == MarkerName(src, wid)
  IN
  /\ pc[p] = "done"
  /\ LET mv == PathReplace(processing, dst, completed,
                           << job[p].task_id, DoneName(src, wid) >>, io_ok)
     IN  processing' = mv.from /\ completed' = mv.to
  /\ Return(p, TRUE)
  /\ UNCHANGED << pending, failed, locks, heartbeats, now, nsub, cfg, claimlog, logs_root >>

\* Lines 674-681: the task_id of the manifest when it can be read, else an
\* id derived from the marker name.
FallbackId(p, t) ==
  LET wid == cfg[p].watcher_id
      dst == MarkerName(job[p].src, wid)
      maybe == ManifestOf(processing[dst].file)
  IN  IF dst \in DOMAIN processing /\ maybe.json = "object" /\ maybe.task_id # ""
        THEN GivenId(maybe.task_id)
        ELSE DerivedId(t, job[p].src, wid)

\* Lines 672-691: the except block up to the Error Record: failed/<id>/ is
\* made and the manifest copied into it when the marker can be read.
run_once_fail(p) ==
  LET wid == cfg[p].watcher_id
      dst == MarkerName(job[p].src, wid)
      fid == FallbackId(p, now)
  IN
  /\ pc[p] = "fail"
  /\ failed' = IF dst \in DOMAIN processing
                 THEN WriteFile(failed, << fid, ManifestCopyName(fid, wid) >>,
                                processing[dst])
                 ELSE failed
  /\ job' = [job EXCEPT ![p].task_id = fid, ![p].ts_fail = now]
  /\ pc' = [pc EXCEPT ![p] = "error"]
  /\ UNCHANGED << pending, processing, completed, locks, heartbeats, now, nsub,
                  cfg, exit, claimlog, logs_root >>

\* The Error Record of lines 696-709.  sn is history: the file claimed.
ErrorRecord(p) ==
  [schema |-> TASK_ERROR_SCHEMA_V1, task_id |-> job[p].task_id,
   watcher_id |-> cfg[p].watcher_id, pid |-> p,
   started_utc |-> job[p].started, ended_utc |-> now,
   duration_seconds |-> now - job[p].started, status |-> "error",
   error_type |-> job[p].ex.type, error |-> job[p].ex.msg,
   traceback |-> job[p].ex.type, sn |-> job[p].sn]

\* Lines 693-709: write_json(err_path, ...) is not guarded: when it raises
\* (json_ok = FALSE) the exception leaves run_once().
run_once_error(p, json_ok) ==
  LET wid == cfg[p].watcher_id
      fid == job[p].task_id
  IN
  /\ pc[p] = "error"
  /\ IF json_ok
       THEN /\ failed' = WriteFile(failed,
                                   << fid, ErrorName(fid, wid, job[p].ts_fail) >>,
                                   ErrorRecord(p))
            /\ pc' = [pc EXCEPT ![p] = "failmove"]
            /\ UNCHANGED << job, exit >>
       ELSE /\ Raise(p)
            /\ UNCHANGED failed
  /\ UNCHANGED << pending, processing, completed, locks, heartbeats, now, nsub,
                  cfg, claimlog, logs_root >>

\* A failure path that puts the manifest back into pending for a retry.
run_once_failmove_requeues(p, io_ok) ==
  LET wid == cfg[p].watcher_id
      src == job[p].src
      dst == MarkerName(src, wid)
      mv == PathReplace(processing, dst, pending, src, io_ok)
  IN
  /\ pc[p] = "failmove"
  /\ processing' = mv.from
  /\ pending' = mv.to
  /\ Return(p, FALSE)
  /\ UNCHANGED << failed, completed, locks, heartbeats, now, nsub, cfg, claimlog, logs_root >>

\* Lines 711-716: the marker moves to failed/<id>/ as .failed (a failed move
\* is ignored), task_processed = False is returned.
run_once_failmove(p, io_ok) ==
  LET wid == cfg[p].watcher_id
      src == job[p].src
      dst == MarkerName(src, wid)
  IN
  /\ pc[p] = "failmove"
  /\ LET mv == PathReplace(processing, dst, failed,
                           << job[p].task_id, FailedName(src, wid) >>, io_ok)
     IN  processing' = mv.from /\ failed' = mv.to
  /\ Return(p, FALSE)
  /\ UNCHANGED << pending, completed, locks, heartbeats, now, nsub, cfg, claimlog, logs_root >>

\* ------------------------------------------------------ specifications
\* --one-task-and-exit is read only by the loop.
Flags(m) == IF m = "single" THEN {FALSE} ELSE BOOLEAN

\* The producers write manifests named in `files`.
Produce(files) == \E name \in files : Submit(name)

\* Watcher processes are started with identities `ids` in modes `modes`.
Launch(ids, modes) ==
  \E p \in Procs, w \in ids, m \in modes : \E o \in Flags(m) :
    acquire_single_instance_lock(p, w, m, o, TRUE)

\* One queue cycle on a working filesystem: every write and rename that can
\* succeed does.
Cycle ==
  \/ \E p \in Procs : run_once_heartbeat(p, TRUE)
  \/ \E p \in Procs : run_once_list(p)
  \/ \E p \in Procs : run_once_claim(p, TRUE)
  \/ \E p \in Procs : run_once_execute(p)
  \/ \E p \in Procs : run_once_archive(p)
  \/ \E p \in Procs : run_once_result(p, TRUE)
  \/ \E p \in Procs : run_once_done(p, TRUE)
  \/ \E p \in Procs : run_once_fail(p)
  \/ \E p \in Procs : run_once_error(p, TRUE)
  \/ \E p \in Procs : run_once_failmove(p, TRUE)

\* The while loop of main() around the cycle.
Loop ==
  \/ \E p \in Procs : update_lock_owner(p)
  \/ \E p \in Procs : main_sleep(p)
  \/ \E p \in Procs : release_single_instance_lock(p)

\* The opportunistic gate of the cycle.
Gate == \E p \in Procs : run_once_gate(p)

\* The calls that an I/O error makes fail: the heartbeat and record writes
\* (write_json raises after its retries), the renames, the owner.json write.
Faults ==
  \/ \E p \in Procs : run_once_heartbeat(p, FALSE)
  \/ \E p \in Procs : run_once_claim(p, FALSE)
  \/ \E p \in Procs : run_once_result(p, FALSE)
  \/ \E p \in Procs : run_once_done(p, FALSE)
  \/ \E p \in Procs : run_once_error(p, FALSE)
  \/ \E p \in Procs : run_once_failmove(p, FALSE)

\* Single-cycle invocations under any identities, on a working filesystem.
NextSingle ==
  \/ Produce({"a_noop.json", "b_unknown.json", "g_ia_fail.json"})
  \/ Launch(WatcherIds, {"single"})
  \/ Cycle

SpecSingle == Init /\ [][NextSingle]_vars

\* Processes started with one identity, single-cycle or looping.
NextLock ==
  \/ Produce({"a_noop.json", "b_unknown.json"})
  \/ Launch({"helper_1"}, {"single", "continuous"})
  \/ Cycle
  \/ Loop

SpecLock == Init /\ [][NextLock]_vars

\* An opportunistic helper beside a primary and a second helper.
NextGate ==
  \/ Produce({"b_unknown.json", "orionmx_h.json"})
  \/ Launch({"orionmx_1", "helper_2"}, {"single"})
  \/ Launch({"helper_1"}, {"opportunistic"})
  \/ Cycle
  \/ Gate
  \/ Loop

SpecGate == Init /\ [][NextGate]_vars

\* Looping watchers on a filesystem whose calls may fail.
NextFault ==
  \/ Produce({"a_noop.json", "d_notype.json"})
  \/ Launch({"helper_1"}, {"continuous"})
  \/ Cycle
  \/ Loop
  \/ Faults

SpecFault == Init /\ [][NextFault]_vars

\* Single-cycle invocations over manifests that lack a field, carry a foreign
\* schema or are no JSON object, on a working filesystem.
NextMalformed ==
  \/ Produce({"c_array.json", "d_notype.json", "e_schema.json", "f_noid.json"})
  \/ Launch({"helper_1", "helper_2"}, {"single"})
  \/ Cycle

SpecMalformed == Init /\ [][NextMalformed]_vars

\* One identity, single-cycle or looping, while a required directory may go
\* away.
NextInfra ==
  \/ Produce({"a_noop.json", "b_unknown.json"})
  \/ Launch({"helper_1"}, {"single", "continuous"})
  \/ Cycle
  \/ Loop
  \/ RemoveLogsRoot

SpecInfra == Init /\ [][NextInfra]_vars

\* Looping watchers of one identity that may be killed, while time passes.
NextCrash ==
  \/ Produce({"a_noop.json", "b_unknown.json"})
  \/ Launch({"helper_1"}, {"continuous"})
  \/ Cycle
  \/ Loop
  \/ \E p \in Procs : Crash(p)
  \/ Tick

SpecCrash == Init /\ [][NextCrash]_vars

\* Single-cycle invocations over a pending directory in which one manifest
\* has a name without the .json suffix.
NextSelect ==
  \/ Produce({"a_first.txt", "a_noop.json", "b_unknown.json"})
  \/ Launch({"helper_1", "helper_2"}, {"single"})
  \/ Cycle

SpecSelect == Init /\ [][NextSelect]_vars

\* A looping watcher and single-cycle invocations of a second identity racing
\* for noop manifests, with claim renames that may fail on an I/O error.
NextRace ==
  \/ Produce({"a_noop.json"})
  \/ \E p \in Procs :
       acquire_single_instance_lock(p, "helper_1", "continuous", FALSE, TRUE)
  \/ Launch({"helper_2"}, {"single"})
  \/ \E p \in Procs : run_once_heartbeat(p, TRUE)
  \/ \E p \in Procs : run_once_list(p)
  \/ \E p \in Procs : run_once_claim(p, TRUE)
  \/ \E p \in Procs : run_once_claim(p, FALSE)
  \/ \E p \in Procs : run_once_execute(p)
  \/ \E p \in Procs : run_once_archive(p)
  \/ \E p \in Procs : run_once_result(p, TRUE)
  \/ \E p \in Procs : run_once_done(p, TRUE)
  \/ \E p \in Procs : update_lock_owner(p)
  \/ \E p \in Procs : main_sleep(p)

SpecRace == Init /\ [][NextRace]_vars

\* Single-cycle invocations whose archive steps may fail: the record writes
\* and the marker moves.
NextArchive ==
  \/ Produce({"a_noop.json", "b_unknown.json"})
  \/ Launch({"helper_1", "helper_2"}, {"single"})
  \/ Cycle
  \/ \E p \in Procs : run_once_result(p, FALSE)
  \/ \E p \in Procs : run_once_done(p, FALSE)
  \/ \E p \in Procs : run_once_error(p, FALSE)
  \/ \E p \in Procs : run_once_failmove(p, FALSE)

SpecArchive == Init /\ [][NextArchive]_vars

\* A primary single-cycle watcher and an opportunistic one-task helper whose
\* heartbeat writes may fail, with tasks that succeed.
NextHeartbeat ==
  \/ Produce({"a_noop.json"})
  \/ Launch({"orionmx_1"}, {"single"})
  \/ \E p \in Procs :
       acquire_single_instance_lock(p, "helper_1", "opportunistic", TRUE, TRUE)
  \/ \E p \in Procs, hb_ok \in BOOLEAN : run_once_heartbeat(p, hb_ok)
  \/ \E p \in Procs : run_once_gate(p)
  \/ \E p \in Procs : run_once_list(p)
  \/ \E p \in Procs : run_once_claim(p, TRUE)
  \/ \E p \in Procs : run_once_execute(p)
  \/ \E p \in Procs : run_once_archive(p)
  \/ \E p \in Procs : run_once_result(p, TRUE)
  \/ \E p \in Procs : run_once_done(p, TRUE)
  \/ Loop

SpecHeartbeat == Init /\ [][NextHeartbeat]_vars

\* A looping watcher whose move of the marker into completed/<task_id>/ may
\* fail.
NextPartial ==
  \/ Produce({"a_noop.json", "b_unknown.json"})
  \/ Launch({"helper_1"}, {"continuous"})
  \/ Cycle
  \/ Loop
  \/ \E p \in Procs : run_once_done(p, FALSE)

SpecPartial == Init /\ [][NextPartial]_vars

\* Processes started with one identity whose owner.json write at acquire may
\* fail.
NextOwner ==
  \/ Produce({"a_noop.json", "b_unknown.json"})
  \/ \E p \in Procs, m \in {"single", "continuous"}, owner_ok \in BOOLEAN :
       \E o \in Flags(m) :
         acquire_single_instance_lock(p, "helper_1", m, o, owner_ok)
  \/ Cycle
  \/ Loop

SpecOwner == Init /\ [][NextOwner]_vars

\* Looping watchers of one identity, continuous or opportunistic, on an empty
\* queue; an operator may remove the lock directory.
NextRefresh ==
  \/ \E p \in Procs, m \in {"continuous", "opportunistic"} :
       acquire_single_instance_lock(p, "helper_1", m, FALSE, TRUE)
  \/ \E p \in Procs : update_lock_owner(p)
  \/ \E p \in Procs : run_once_heartbeat(p, TRUE)
  \/ \E p \in Procs : run_once_gate(p)
  \/ \E p \in Procs : run_once_list(p)
  \/ \E p \in Procs : main_sleep(p)
  \/ RemoveLockDir("helper_1")

SpecRefresh == Init /\ [][NextRefresh]_vars

\* The task generator writing manifests into pending while single-cycle
\* watchers run; a rename of the file may be refused while it is open.
NextProducer ==
  \/ \E name \in {"a_noop.json", "g_ia_ok.json"} : generate_tasks_open(name)
  \/ generate_tasks_write
  \/ Launch({"helper_1", "helper_2"}, {"single"})
  \/ Cycle
  \/ \E p \in Procs : run_once_claim(p, FALSE)

SpecProducer == Init /\ [][NextProducer]_vars

\* A primary single-cycle watcher and an opportunistic one-task helper, with
\* heartbeat files and owner records that are deleted under them;
\* tasks that succeed.
NextObserve ==
  \/ Produce({"a_noop.json"})
  \/ Launch({"orionmx_1"}, {"single"})
  \/ \E p \in Procs :
       acquire_single_instance_lock(p, "helper_1", "opportunistic", TRUE, TRUE)
  \/ \E p \in Procs : run_once_heartbeat(p, TRUE)
  \/ \E p \in Procs : run_once_gate(p)
  \/ \E p \in Procs : run_once_list(p)
  \/ \E p \in Procs : run_once_claim(p, TRUE)
  \/ \E p \in Procs : run_once_execute(p)
  \/ \E p \in Procs : run_once_archive(p)
  \/ \E p \in Procs : run_once_result(p, TRUE)
  \/ \E p \in Procs : run_once_done(p, TRUE)
  \/ Loop
  \/ \E w \in WatcherIds : TamperHeartbeat(w)
  \/ \E w \in WatcherIds : TamperOwner(w)

SpecObserve == Init /\ [][NextObserve]_vars

\* ------------------------------------------------------------- claims
\* A process is between its claim and the end of that cycle.
InCycle(p) == pc[p] \in {"execute", "archive", "result", "done", "fail", "error", "failmove"}
\* The files written into pending so far.
Submitted == 1..nsub
Tries(sn) == {e \in claimlog : e.sn = sn}
Wins(sn) == {e \in claimlog : e.sn = sn /\ e.ok}
Markers(sn) == {q \in DOMAIN processing : processing[q].sn = sn}
InPending(sn) == \E n \in DOMAIN pending : pending[n].sn = sn
ResultRecords(sn) ==
  {q \in DOMAIN completed : q[2][Len(q[2])] = "result.json" /\ completed[q].sn = sn}
ErrorRecords(sn) ==
  {q \in DOMAIN failed : q[2][Len(q[2])] = "error.json" /\ failed[q].sn = sn}
\* The winner of file sn has returned from the cycle that claimed it.
Finished(sn) ==
  /\ Wins(sn) # {}
  /\ \A e \in Wins(sn) : ~(InCycle(e.p) /\ job[e.p].sn = sn)

\* C1: of the watchers that try to claim one manifest file, exactly one gets
\* True from atomic_rename and the others False; the file is then gone from
\* pending and sits in processing under the winner's marker name only, until
\* the winner archives it.
C1_ClaimMutualExclusion ==
  \A sn \in Submitted :
    Tries(sn) # {} =>
      /\ Cardinality(Wins(sn)) = 1
      /\ ~InPending(sn)
      /\ \A e \in Wins(sn) :
           /\ Markers(sn) \subseteq {MarkerName(e.name, cfg[e.p].watcher_id)}
           /\ (pc[e.p] \in {"execute", "archive", "result", "fail", "error"}
                 /\ job[e.p].sn = sn)
                => Markers(sn) # {}

\* Two watchers of distinct identities have both tried one file: one won,
\* one lost.
C1_Witness ==
  \E sn \in Submitted : \E e1, e2 \in Tries(sn) :
    /\ e1.ok /\ ~e2.ok
    /\ cfg[e1.p].watcher_id # cfg[e2.p].watcher_id

Outcomes(sn) == Cardinality(ResultRecords(sn)) + Cardinality(ErrorRecords(sn))

\* C2: however the cycles of single-cycle watchers interleave on one pending
\* manifest file, the Result and Error Records written for it number at most
\* one at any time, and exactly one once the watcher that claimed it has
\* returned from its cycle.
C2_ExactlyOneOutcome ==
  \A sn \in Submitted :
    /\ Outcomes(sn) <= 1
    /\ Finished(sn) => Outcomes(sn) = 1

\* Two single-cycle watchers of distinct identities raced for one file, both
\* have exited, and the file has its one record.
C2_Witness ==
  \E sn \in Submitted : \E e1, e2 \in Tries(sn) :
    /\ e1.ok /\ ~e2.ok
    /\ cfg[e1.p].watcher_id # cfg[e2.p].watcher_id
    /\ cfg[e1.p].mode = "single" /\ cfg[e2.p].mode = "single"
    /\ pc[e1.p] = "exited" /\ pc[e2.p] = "exited"
    /\ Outcomes(sn) = 1

\* Manifest file sn was parsed, dispatched and its handler returned.
HandlerReturned(e) ==
  LET m == ManifestOf(e.name)
  IN  /\ ParseError(m) = NoError
      /\ execute_manifest_task(m, GivenId(m.task_id), 0).ex = NoError

HasResultRecord(tid) ==
  \E q \in DOMAIN completed : q[1] = tid /\ q[2][Len(q[2])] = "result.json"

\* C4: when the handler of a claimed task has returned, the task's Result
\* Record is under completed/<task_id>/ by the time run_once returns; and no
\* directory completed/<task_id>/ ever exists without a Result Record in it.
C4_ArchiveAtomicity ==
  /\ \A sn \in Submitted : \A e \in Wins(sn) :
       (Finished(sn) /\ HandlerReturned(e)) => ResultRecords(sn) # {}
  /\ \A tid \in TaskDirs(completed) : HasResultRecord(tid)

\* C8: a claimed manifest whose task_type no handler is registered for ends
\* in failed/<task_id>/ with an Error Record whose error_type is
\* UnknownTaskType; no Result Record is written and the process does not end
\* by an exception.
C8_UnknownTaskType ==
  \A sn \in Submitted : \A e \in Wins(sn) :
    LET m == ManifestOf(e.name)
    IN  (/\ Finished(sn)
         /\ ParseError(m) = NoError
         /\ m.task_type \notin HandlerRegistry)
        => /\ ErrorRecords(sn) # {}
           /\ \A q \in ErrorRecords(sn) :
                /\ failed[q].error_type = "UnknownTaskType"
                /\ << q[1], FailedName(e.name, cfg[e.p].watcher_id) >> \in DOMAIN failed
           /\ ResultRecords(sn) = {}
           /\ exit[e.p] # "exception"

\* C9: with one valid noop manifest the only file ever written to pending, a
\* single-cycle invocation that claimed it ends with pending, processing and
\* failed empty and completed/<task_id>/ holding the manifest copy, the marker
\* as .done and a Result Record of status ok with a non-empty outputs list.
C9_NoopScenario ==
  \A e \in Wins(1) :
    (nsub = 1 /\ e.name = "a_noop.json" /\ pc[e.p] = "exited"
       /\ cfg[e.p].mode = "single")
    => LET wid == cfg[e.p].watcher_id
           tid == GivenId(ManifestOf(e.name).task_id)
       IN  /\ DOMAIN pending = {}
           /\ DOMAIN processing = {}
           /\ DOMAIN failed = {}
           /\ exit[e.p] = "ok"
           /\ << tid, ManifestCopyName(tid, wid) >> \in DOMAIN completed
           /\ << tid, DoneName(e.name, wid) >> \in DOMAIN completed
           /\ \E q \in ResultRecords(1) :
                /\ q[1] = tid
                /\ completed[q].status = "ok"
                /\ completed[q].outputs # << >>

\* The noop manifest was the only file and its single-cycle claimer has exited.
C9_Witness ==
  \E e \in Wins(1) :
    /\ nsub = 1 /\ e.name = "a_noop.json" /\ pc[e.p] = "exited"
    /\ cfg[e.p].mode = "single"
    /\ ResultRecords(1) # {}

\* C3: a manifest file that was claimed and whose cycle is over is recorded
\* in exactly one of completed/<task_id>/ (a Result Record) and
\* failed/<task_id>/ (an Error Record); no watcher here is killed.
C3_NoLoss ==
  \A sn \in Submitted :
    Finished(sn) => ((ResultRecords(sn) # {}) # (ErrorRecords(sn) # {}))

Running(p) == pc[p] \notin {"off", "exited"}

\* C5: at most one running process holds the lock of an identity; a process
\* that found the lock directory there has exited at once without running a
\* cycle, and every running process is the recorded owner of its lock.
C5_LockExclusivity ==
  /\ \A p, q \in Procs :
       (p # q /\ Running(p) /\ Running(q)) => cfg[p].watcher_id # cfg[q].watcher_id
  /\ \A p \in Procs :
       Running(p) => /\ cfg[p].watcher_id \in DOMAIN locks
                     /\ locks[cfg[p].watcher_id].pid = p
  /\ \A p \in Procs :
       exit[p] = "lock_held" => /\ pc[p] = "exited"
                                /\ \A e \in claimlog : e.p # p
                                /\ \A w \in DOMAIN heartbeats : heartbeats[w].pid # p

\* A second process was refused the lock of an identity whose holder is
\* running and has claimed a file.
C5_Witness ==
  \E p, q \in Procs :
    /\ p # q
    /\ cfg[p].watcher_id = cfg[q].watcher_id
    /\ exit[p] = "lock_held"
    /\ Running(q)
    /\ \E e \in claimlog : e.p = q /\ e.ok

IsPrimary(wid) == wid = "orionmx_1"

\* C6: an opportunistic watcher claims a file only in a cycle during which
\* processing held a marker of the primary watcher; so it has claimed nothing
\* as long as the primary watcher has claimed nothing.
C6_OpportunisticGating ==
  \A e \in claimlog :
    (e.ok /\ cfg[e.p].mode = "opportunistic")
      => \E f \in claimlog : f.ok /\ IsPrimary(cfg[f.p].watcher_id)

\* C7: a continuous watcher never leaves its loop by an exception of a cycle,
\* whatever fails in the handling of a claimed task.
C7_PerTaskErrorsContained ==
  \A p \in Procs : cfg[p].mode = "continuous" => exit[p] # "exception"

\* What the manifest has to be refused for: no JSON object, no task_id, no
\* task_type, or a schema other than the task schema.
Malformed(m) ==
  \/ m.json # "object"
  \/ m.task_id = ""
  \/ m.task_type = ""
  \/ (m.schema # "" /\ m.schema # TASK_SCHEMA_V1)

\* C10: a claimed manifest that is malformed ends its cycle with an Error
\* Record under failed/ and no Result Record, and the process does not end by
\* an exception.
C10_MalformedManifest ==
  \A sn \in Submitted : \A e \in Wins(sn) :
    (Finished(sn) /\ Malformed(ManifestOf(e.name)))
      => /\ ErrorRecords(sn) # {}
         /\ ResultRecords(sn) = {}
         /\ exit[e.p] # "exception"

\* The claim attempts process p has made.
Attempts(p) == {e \in claimlog : e.p = p}

\* Process p has claimed a task, its handler returned and that cycle is over.
Succeeded(p) ==
  \E e \in Attempts(p) :
    e.ok /\ HandlerReturned(e) /\ ~(InCycle(p) /\ job[p].sn = e.sn)

HoldsLock(p) ==
  /\ cfg[p].watcher_id \in DOMAIN locks
  /\ locks[cfg[p].watcher_id].pid = p

\* C11: with one-task-and-exit set, a looping watcher that has processed a
\* task with success is leaving or has left its loop: it makes no further
\* claim attempt, and once it has exited its exit code is 0 and the lock
\* directory it created is gone.
C11_OneTaskExit ==
  /\ [](\A p \in Procs :
          (cfg[p].one_task /\ Succeeded(p))
            => /\ pc[p] \in {"release", "exited"}
               /\ pc[p] = "exited" => (exit[p] = "ok" /\ ~HoldsLock(p)))
  /\ [][\A p \in Procs :
          (cfg[p].one_task /\ Succeeded(p))
            => {e \in claimlog' : e.p = p} = Attempts(p)]_vars

\* A one-task watcher has exited after its task while another manifest was
\* waiting in pending.
C11_Witness ==
  \E p \in Procs :
    /\ cfg[p].one_task /\ cfg[p].mode = "continuous"
    /\ Succeeded(p)
    /\ pc[p] = "exited"
    /\ DOMAIN pending # {}

\* C12: a watcher started with one-task-and-exit claims at most one manifest
\* over its lifetime, whatever the outcome of that task.
C12_AtMostOneUnit ==
  \A p \in Procs :
    cfg[p].one_task => Cardinality({e \in Attempts(p) : e.ok}) <= 1

\* C13: a single-cycle invocation that got the lock never enters the loop,
\* makes at most one claim attempt, and has exited with code 0 after one
\* heartbeat write, whether its task completed, failed or nothing was claimed.
C13_SingleCycle ==
  \A p \in Procs :
    cfg[p].mode = "single" =>
      /\ pc[p] \notin {"loop", "sleep", "gate", "release"}
      /\ Cardinality(Attempts(p)) <= 1
      /\ (pc[p] = "exited" /\ exit[p] # "lock_held")
           => /\ exit[p] = "ok"
              /\ cfg[p].watcher_id \in DOMAIN heartbeats
              /\ heartbeats[cfg[p].watcher_id].pid = p

\* Two single-cycle invocations have exited with code 0: one found nothing
\* to claim, the other claimed a task that failed.
C13_Witness ==
  \E p, q \in Procs :
    /\ p # q
    /\ cfg[p].mode = "single" /\ cfg[q].mode = "single"
    /\ pc[p] = "exited" /\ exit[p] = "ok"
    /\ pc[q] = "exited" /\ exit[q] = "ok"
    /\ Attempts(p) = {}
    /\ \E e \in Attempts(q) : e.ok /\ ~HandlerReturned(e)

PendingFiles(sn) == {n \in DOMAIN pending : pending[n].sn = sn}
DoneMarkers(sn) ==
  {q \in DOMAIN completed : q[2][Len(q[2])] = "done" /\ completed[q].sn = sn}
FailedMarkers(sn) ==
  {q \in DOMAIN failed : q[2][Len(q[2])] = "failed" /\ failed[q].sn = sn}

\* C14: a manifest file is, the archived copy aside, in at most one of
\* pending, processing (as a marker), completed/<task_id>/ (as .done) and
\* failed/<task_id>/ (as .failed) in every reachable state.
C14_OneLocation ==
  \A sn \in Submitted :
    Cardinality(PendingFiles(sn)) + Cardinality(Markers(sn))
      + Cardinality(DoneMarkers(sn)) + Cardinality(FailedMarkers(sn)) <= 1

\* One manifest has gone all the way to completed as .done while another,
\* claimed by a different watcher, sits in processing.
C14_Witness ==
  \E sn1, sn2 \in Submitted :
    /\ DoneMarkers(sn1) # {}
    /\ Markers(sn2) # {}
    /\ \E e1 \in Wins(sn1), e2 \in Wins(sn2) : e1.p # e2.p

\* C15: a process that ended on a missing required directory or on a held
\* lock had not touched any task: it made no claim attempt before.
C15_InfraFatalAtStartupOnly ==
  \A p \in Procs :
    exit[p] \in {"exception", "lock_held"} => Attempts(p) = {}

\* C16: after the holder of an identity's lock was killed, the lock directory
\* stays, with the holder's owner record, and no other process of that
\* identity runs, however old the record is; and a lock directory goes away
\* only in the release step of the process that holds it.
C16_LockNotSelfHealing ==
  /\ [](\A p \in Procs :
          exit[p] = "killed"
            => /\ HoldsLock(p)
               /\ \A q \in Procs :
                    (q # p /\ cfg[q].watcher_id = cfg[p].watcher_id) => ~Running(q))
  /\ [][\A w \in DOMAIN locks :
          w \notin DOMAIN locks'
            => /\ pc[locks[w].pid] = "release"
               /\ pc'[locks[w].pid] = "exited"]_vars

\* The holder was killed, the clock has moved past its owner record, and a
\* later process of the same identity was refused the lock.
C16_Witness ==
  \E p, q \in Procs :
    /\ p # q
    /\ cfg[q].watcher_id = cfg[p].watcher_id
    /\ exit[p] = "killed"
    /\ exit[q] = "lock_held"
    /\ locks[cfg[p].watcher_id].utc_last_seen < now

IsRecordName(q, kind) == q[2][Len(q[2])] = kind

\* C17: a Result or Error Record that exists is still there, with the same
\* content, after every step of every watcher.
C17_RecordsAppendOnly ==
  [][/\ \A q \in DOMAIN completed :
          IsRecordName(q, "result.json")
            => (q \in DOMAIN completed' /\ completed'[q] = completed[q])
     /\ \A q \in DOMAIN failed :
          IsRecordName(q, "error.json")
            => (q \in DOMAIN failed' /\ failed'[q] = failed[q])]_vars

\* C18: the candidate a cycle picks when it lists pending is the first, in
\* lexicographic order of file names, of the manifests in pending at that
\* moment, and a cycle makes at most one claim.
C18_SelectionPolicy ==
  /\ [](\A p \in Procs : cfg[p].mode = "single" => Cardinality(Attempts(p)) <= 1)
  /\ [][\A p \in Procs :
          (pc[p] = "list" /\ pc'[p] = "claim")
            => /\ job'[p].src \in DOMAIN pending
               /\ \A n \in DOMAIN pending : Rank(job'[p].src) <= Rank(n)]_vars

\* C19: the step in which a watcher's claim fails ends that watcher's cycle:
\* it returns False to main(), nothing under pending, processing, completed
\* or failed changes, and no other candidate is tried.
C19_ClaimFailureFrame ==
  [][\A p \in Procs :
       (pc[p] = "claim" /\ pc'[p] \notin {"claim", "execute"})
         => /\ UNCHANGED fsvars
            /\ pc'[p] = AfterCycle(p, FALSE)
            /\ Cardinality(claimlog' \ claimlog) <= 1
            /\ \A e \in claimlog' \ claimlog : ~e.ok]_vars

\* One claim failed because another watcher had the file, another because
\* the rename met an I/O error with the file still in pending; the looping
\* watcher that made them is back in its loop.
C19_Witness ==
  \E e, f \in claimlog :
    /\ ~e.ok /\ \E w \in Wins(e.sn) : w.p # e.p
    /\ ~f.ok /\ InPending(f.sn)
    /\ pc[e.p] \in {"sleep", "loop"} /\ pc[f.p] \in {"sleep", "loop"}

HasRecord(dir, tid, kind) ==
  \E r \in DOMAIN dir : r[1] = tid /\ IsRecordName(r, kind)

\* C20: a .done marker under completed/<task_id>/ has a Result Record beside
\* it and a .failed marker under failed/<task_id>/ an Error Record; a marker
\* leaves processing only by being moved, content intact, into a terminal
\* directory that already holds the outcome record.
C20_ArchiveOrdering ==
  /\ [](/\ \A q \in DOMAIN completed :
             IsRecordName(q, "done") => HasRecord(completed, q[1], "result.json")
        /\ \A q \in DOMAIN failed :
             IsRecordName(q, "failed") => HasRecord(failed, q[1], "error.json"))
  /\ [][\A m \in DOMAIN processing :
          m \notin DOMAIN processing'
            => \/ \E q \in DOMAIN completed' :
                    /\ IsRecordName(q, "done")
                    /\ completed'[q] = processing[m]
                    /\ HasRecord(completed, q[1], "result.json")
               \/ \E q \in DOMAIN failed' :
                    /\ IsRecordName(q, "failed")
                    /\ failed'[q] = processing[m]
                    /\ HasRecord(failed, q[1], "error.json")]_vars

\* One marker was archived as .done; another, of a task whose handler had
\* returned but whose Result Record could not be written, as .failed.
C20_Witness ==
  /\ \E sn \in Submitted : DoneMarkers(sn) # {}
  /\ \E e \in claimlog :
       e.ok /\ HandlerReturned(e) /\ FailedMarkers(e.sn) # {}

\* C21: with one manifest the only file ever written to pending, once its
\* cycle is over the watcher has left a task directory under exactly one of
\* completed/ and failed/.
C21_TerminalUnambiguous ==
  (nsub = 1 /\ Finished(1))
    => ((TaskDirs(completed) # {}) # (TaskDirs(failed) # {}))

\* C22: a watcher process that got the lock and has exited without being
\* killed no longer holds the lock directory of its identity.
C22_LockReleasedOnExit ==
  \A p \in Procs :
    (pc[p] = "exited" /\ exit[p] \in {"ok", "exception"}) => ~HoldsLock(p)

\* the step of process p that leaves the heartbeat write of a cycle
HeartbeatStep(p) == pc[p] = "cycle" /\ pc'[p] # "cycle"

\* C23: each cycle passes the heartbeat write exactly once, before the gate,
\* the listing and the claim; the write either stores the heartbeat of this
\* second or, when it fails, stores nothing, and in both cases the cycle goes
\* on to the gate (opportunistic) or the listing with nothing else changed;
\* a claim attempt is made only from the claim step, which is entered only
\* from the listing, itself entered only after the heartbeat or the gate.
C23_HeartbeatEveryCycle ==
  [][\A p \in Procs :
       /\ HeartbeatStep(p) =>
            /\ pc'[p] = IF cfg[p].mode = "opportunistic" THEN "gate" ELSE "list"
            /\ heartbeats' \in
                 {heartbeats,
                  WriteFile(heartbeats, cfg[p].watcher_id,
                            [pid |-> p, utc_last_seen |-> now])}
            /\ UNCHANGED << pending, processing, completed, failed, locks,
                            claimlog, exit, cfg >>
       /\ (pc'[p] = "gate" /\ pc[p] # "gate") => pc[p] = "cycle"
       /\ (pc'[p] = "list" /\ pc[p] # "list") => pc[p] \in {"cycle", "gate"}
       /\ (pc'[p] = "claim" /\ pc[p] # "claim") => pc[p] = "list"
       /\ (Attempts(p)' # Attempts(p)) => pc[p] = "claim"]_vars

\* an opportunistic watcher whose heartbeat was never stored has passed the
\* gate and claimed a manifest
C23_Witness ==
  \E p \in Procs :
    /\ cfg[p].mode = "opportunistic"
    /\ cfg[p].watcher_id \notin DOMAIN heartbeats
    /\ \E e \in Attempts(p) : e.ok

\* C24: the gate of an opportunistic cycle opens only when processing holds a
\* marker whose watcher identity is the primary's and differs from the
\* identity of the watcher at the gate.
C24_GateIdentity ==
  [][\A p \in Procs :
       (pc[p] = "gate" /\ pc'[p] = "list")
         => \E marker \in DOMAIN processing :
              /\ IsPrimary(marker[2])
              /\ marker[2] # cfg[p].watcher_id]_vars

\* the step in which process p reads the manifest and dispatches its handler
ExecuteStep(p) == pc[p] = "execute" /\ pc'[p] # "execute"

\* C25: a watcher reads a manifest and invokes its handler only after its own
\* claim of that file succeeded, from its marker in processing and with the
\* file gone from pending; no other watcher is working on the file and no
\* record of an earlier handling of it exists, so the handler of a manifest
\* file runs at most once over all watchers.
C25_ReadOnlyAfterClaim ==
  [][\A p \in Procs :
       ExecuteStep(p) =>
         LET sn == job[p].sn
             dst == MarkerName(job[p].src, cfg[p].watcher_id)
         IN  /\ Wins(sn) # {}
             /\ \A e \in Wins(sn) : e.p = p
             /\ dst \in DOMAIN processing
             /\ processing[dst].sn = sn
             /\ ~InPending(sn)
             /\ Outcomes(sn) = 0
             /\ \A q \in Procs \ {p} : ~(InCycle(q) /\ job[q].sn = sn)]_vars

\* two watchers went for one file; the winner ran its handler and archived the
\* Result Record, the loser has exited without a record of its own
C25_Witness ==
  \E sn \in Submitted : \E e1, e2 \in Tries(sn) :
    /\ e1.ok /\ ~e2.ok
    /\ ResultRecords(sn) # {}
    /\ \A q \in ResultRecords(sn) : completed[q].watcher_id = cfg[e1.p].watcher_id
    /\ pc[e2.p] = "exited"

\* directory dir keeps every file it holds, with its content
KeepsFiles(dir) == \A q \in DOMAIN dir : q \in DOMAIN dir' /\ dir'[q] = dir[q]

\* C26: the claim rename leaves every file already in processing as it is,
\* and the move of a marker into completed/<task_id>/ or failed/<task_id>/
\* leaves every file already there as it is.
C26_NoOverwrite ==
  [][\A p \in Procs :
       /\ (pc[p] = "claim" /\ pc'[p] # "claim") => KeepsFiles(processing)
       /\ (pc[p] = "done" /\ pc'[p] # "done") => KeepsFiles(completed)
       /\ (pc[p] = "failmove" /\ pc'[p] # "failmove") => KeepsFiles(failed)]_vars

\* the step of process p that moves, or fails to move, the marker to .done
DoneStep(p) == pc[p] = "done" /\ pc'[p] # "done"

\* C27: the step after the Result Record write, whether or not the marker
\* move goes through, ends the cycle with the task reported processed (a
\* one-task loop leaves, another loop sleeps), keeps the Result Record as
\* written and touches neither pending nor failed; when the move fails
\* nothing changes on disk, so the marker stays in processing.  A claimed
\* file whose cycle is over and that has a Result Record has no Error Record,
\* stray marker or not.
C27_PartialArchiveFailure ==
  /\ [](\A e \in claimlog :
          (e.ok /\ Finished(e.sn) /\ ResultRecords(e.sn) # {})
            => ErrorRecords(e.sn) = {})
  /\ [][\A p \in Procs :
          DoneStep(p) =>
            LET sn == job[p].sn
                dst == MarkerName(job[p].src, cfg[p].watcher_id)
            IN  /\ pc'[p] = AfterCycle(p, TRUE)
                /\ ResultRecords(sn) # {}
                /\ \A q \in ResultRecords(sn) :
                     q \in DOMAIN completed' /\ completed'[q] = completed[q]
                /\ UNCHANGED << pending, failed >>
                /\ \/ dst \notin DOMAIN processing'
                   \/ UNCHANGED << processing, completed >>]_vars

\* a one-task loop has left after a task whose Result Record is archived and
\* whose marker is still in processing, with no Error Record
C27_Witness ==
  \E p \in Procs :
    /\ cfg[p].one_task
    /\ pc[p] \in {"release", "exited"}
    /\ \E e \in Attempts(p) :
         /\ e.ok
         /\ Markers(e.sn) # {}
         /\ ResultRecords(e.sn) # {}
         /\ ErrorRecords(e.sn) = {}

\* manifest m is an object that names a schema other than the supported one
UnsupportedSchema(m) ==
  m.json = "object" /\ m.schema # "" /\ m.schema # TASK_SCHEMA_V1

ProducerStep ==
  /\ nsub' = nsub + 1
  /\ \E n \in FileNames \ DOMAIN pending :
       pending' = WriteFile(pending, n, [file |-> n, sn |-> nsub + 1])

\* the step is a claim that went through and took one file out of pending
ClaimStep ==
  \E p \in Procs :
    /\ pc[p] = "claim" /\ pc'[p] = "execute"
    /\ job[p].src \in DOMAIN pending
    /\ pending' = RemoveFile(pending, job[p].src)

\* C29: pending changes only when a producer adds a file or a claim that
\* succeeds removes one; no step of a watcher creates or rewrites a file
\* there, whatever the outcome of the task and its attempt field, and a file
\* that was claimed is never in pending again.
C29_NeverReenqueues ==
  /\ [](\A e \in claimlog : e.ok => ~InPending(e.sn))
  /\ [][(pending' # pending) => (ProducerStep \/ ClaimStep)]_vars

\* the manifest of attempt 2 whose handler failed has its Error Record, its
\* cycle is over and pending does not hold it
C29_Witness ==
  \E e \in claimlog :
    /\ e.ok
    /\ ManifestOf(e.name).attempt = 2
    /\ Finished(e.sn)
    /\ ErrorRecords(e.sn) # {}
    /\ e.name \notin DOMAIN pending

\* the step in which process p runs acquire_single_instance_lock
AcquireStep(p) == pc[p] = "off" /\ pc'[p] # "off"

\* C30: an acquire that finds no lock directory for its identity creates it
\* and goes on to run cycles whether or not the owner record could be
\* written; an acquire that finds the directory exits with lock_held and
\* leaves it as it is; while a watcher is between its acquire and its exit
\* the directory of its identity exists, owner record or not.
C30_OwnerWriteNotFatal ==
  /\ [](\A p \in Procs : Running(p) => cfg[p].watcher_id \in DOMAIN locks)
  /\ [][\A p \in Procs :
          AcquireStep(p) =>
            LET w == cfg'[p].watcher_id
            IN  IF w \in DOMAIN locks
                  THEN /\ pc'[p] = "exited"
                       /\ exit'[p] = "lock_held"
                       /\ UNCHANGED locks
                  ELSE /\ w \in DOMAIN locks'
                       /\ pc'[p] \in {"cycle", "loop"}
                       /\ exit'[p] = ""]_vars

\* a watcher whose lock directory has no owner record has claimed a manifest,
\* and another process of the same identity was refused the lock
C30_Witness ==
  \E p, q \in Procs :
    /\ p # q
    /\ cfg[p].watcher_id = cfg[q].watcher_id
    /\ Running(p)
    /\ locks[cfg[p].watcher_id] = NoOwner
    /\ \E e \in Attempts(p) : e.ok
    /\ exit[q] = "lock_held"

\* the step in which process p runs update_lock_owner
RefreshStep(p) == pc[p] = "loop" /\ pc'[p] # "loop"

MarkersOf(w) == {marker \in DOMAIN processing : marker[2] = w}

\* C32: with no process killed and every marker move going through,
\* processing holds at most one marker of each watcher identity, and a
\* watcher that is about to attempt a claim has no marker of its identity
\* there.
C32_NoPipelining ==
  /\ \A w \in WatcherIds : Cardinality(MarkersOf(w)) <= 1
  /\ \A p \in Procs : pc[p] = "claim" => MarkersOf(cfg[p].watcher_id) = {}

\* one identity has claimed two files: the first has its record and the
\* marker of the second is in processing
C32_Witness ==
  \E e1, e2 \in claimlog :
    /\ e1.ok /\ e2.ok
    /\ e1.sn # e2.sn
    /\ cfg[e1.p].watcher_id = cfg[e2.p].watcher_id
    /\ Outcomes(e1.sn) = 1
    /\ Markers(e2.sn) # {}
    /\ Markers(e1.sn) = {}

\* C33: a claimed manifest file whose producer writes a valid task that its
\* handler carries out gets no Error Record, however the producer's write
\* and the watcher's cycle interleave.
C33_NeverClaimedMidWrite ==
  \A e \in claimlog :
    (e.ok /\ ParseError(ManifestOf(e.name)) = NoError
          /\ ManifestOf(e.name).run = "ok"
          /\ ManifestOf(e.name).task_type \in {"noop", "stage1.ia_download"})
      => ErrorRecords(e.sn) = {}

\* C34: what acquire, the gate, the listing and the claim come to is fixed by
\* the existence of the lock directory and the contents of processing and
\* pending alone, whatever heartbeat files and owner records hold or lack:
\* acquire is refused exactly when the directory of the identity exists, the
\* gate opens exactly when is_orionmx_busy holds of processing, the listing
\* goes on to a claim exactly when pending has a candidate, and the claim
\* succeeds exactly when its candidate is still in pending.
C34_ObservationalOnly ==
  [][\A p \in Procs :
       /\ (pc[p] = "off" /\ pc'[p] # "off")
            => ((exit'[p] = "lock_held") <=> (cfg'[p].watcher_id \in DOMAIN locks))
       /\ (pc[p] = "gate" /\ pc'[p] # "gate")
            => ((pc'[p] = "list") <=> is_orionmx_busy(processing))
       /\ (pc[p] = "list" /\ pc'[p] # "list")
            => ((pc'[p] = "claim") <=> (json_candidates(pending) # {}))
       /\ (pc[p] = "claim" /\ pc'[p] # "claim")
            => ((pc'[p] = "execute") <=> (job[p].src \in DOMAIN pending))]_vars

\* an opportunistic watcher has passed the gate and claimed a manifest while
\* its lock directory has no owner record of it and the primary has no
\* heartbeat file
C34_Witness ==
  \E p \in Procs :
    /\ cfg[p].mode = "opportunistic"
    /\ Running(p)
    /\ \E e \in Attempts(p) : e.ok
    /\ cfg[p].watcher_id \in DOMAIN locks
    /\ locks[cfg[p].watcher_id] = NoOwner
    /\ "orionmx_1" \notin DOMAIN heartbeats

\* the identity and timing fields of a Result Record
IdentityTimingFields ==
  {"task_id", "task_type", "attempt", "watcher_id", "started_utc",
   "ended_utc", "duration_seconds"}

\* C35: every Error Record under failed/ has the identity and timing fields
\* of a Result Record and, beside them, error_type, error and traceback.
C35_ErrorRecordFields ==
  \A q \in DOMAIN failed :
    IsRecordName(q, "error.json")
      => (IdentityTimingFields \cup {"error_type", "error", "traceback"})
           \subseteq DOMAIN failed[q]

====
